---- MODULE Spec2Model ----
(***************************************************************************)
(* Model of the cical calculation engine (src/src/lib.rs).                 *)
(*                                                                         *)
(* The engine computes on f64 values.  The model computes on exact         *)
(* rationals: a value is a record [s, n, d] with sign s in {-1,0,1} and    *)
(* numerator n and denominator d held as multi-limb naturals, because      *)
(* (1 + rate)^52 does not fit a machine integer.  Every arithmetic         *)
(* operator below computes the real-number result of the f64 operation it  *)
(* stands for; rounding, overflow to infinity and NaN are outside the      *)
(* model.                                                                  *)
(***************************************************************************)
EXTENDS Integers, Sequences, FiniteSets, TLC

(***************************************************************************)
(* Multi-limb naturals: little-endian sequences of limbs in 0..LimbBase-1, *)
(* no leading zero limb, zero is the empty sequence.                       *)
(***************************************************************************)
LimbBase == 10000

RECURSIVE NatFromInt(_)
NatFromInt(k) ==
    IF k = 0 THEN <<>> ELSE <<k % LimbBase>> \o NatFromInt(k \div LimbBase)

RECURSIVE NatTrim(_)
NatTrim(a) ==
    IF a = <<>> THEN <<>>
    ELSE IF a[Len(a)] = 0 THEN NatTrim(SubSeq(a, 1, Len(a) - 1))
    ELSE a

RECURSIVE NatCmpFrom(_, _, _)
NatCmpFrom(a, b, i) ==
    IF i = 0 THEN 0
    ELSE IF a[i] < b[i] THEN -1
    ELSE IF a[i] > b[i] THEN 1
    ELSE NatCmpFrom(a, b, i - 1)

NatCmp(a, b) ==
    IF Len(a) < Len(b) THEN -1
    ELSE IF Len(a) > Len(b) THEN 1
    ELSE NatCmpFrom(a, b, Len(a))

RECURSIVE NatAddFrom(_, _, _, _)
NatAddFrom(a, b, i, c) ==
    IF i > Len(a) /\ i > Len(b)
    THEN (IF c = 0 THEN <<>> ELSE <<c>>)
    ELSE LET s == (IF i <= Len(a) THEN a[i] ELSE 0)
                  + (IF i <= Len(b) THEN b[i] ELSE 0) + c
         IN  <<s % LimbBase>> \o NatAddFrom(a, b, i + 1, s \div LimbBase)

NatAdd(a, b) == NatAddFrom(a, b, 1, 0)

\* a - b for a >= b; c is the borrow
RECURSIVE NatSubFrom(_, _, _, _)
NatSubFrom(a, b, i, c) ==
    IF i > Len(a) THEN <<>>
    ELSE LET s == a[i] - (IF i <= Len(b) THEN b[i] ELSE 0) - c
         IN  IF s < 0
             THEN <<s + LimbBase>> \o NatSubFrom(a, b, i + 1, 1)
             ELSE <<s>> \o NatSubFrom(a, b, i + 1, 0)

NatSub(a, b) == NatTrim(NatSubFrom(a, b, 1, 0))

\* a * m for a small multiplier 0 < m < LimbBase
RECURSIVE NatMulSmallFrom(_, _, _, _)
NatMulSmallFrom(a, m, i, c) ==
    IF i > Len(a)
    THEN (IF c = 0 THEN <<>> ELSE <<c>>)
    ELSE LET s == a[i] * m + c
         IN  <<s % LimbBase>> \o NatMulSmallFrom(a, m, i + 1, s \div LimbBase)

NatMulSmall(a, m) == IF m = 0 THEN <<>> ELSE NatMulSmallFrom(a, m, 1, 0)

NatShift(a) == IF a = <<>> THEN <<>> ELSE <<0>> \o a

RECURSIVE NatMulFrom(_, _, _)
NatMulFrom(a, b, i) ==
    IF i > Len(b) THEN <<>>
    ELSE NatAdd(NatMulSmall(a, b[i]), NatShift(NatMulFrom(a, b, i + 1)))

NatMul(a, b) ==
    IF a = <<>> \/ b = <<>> THEN <<>>
    ELSE LET swap == Len(a) < Len(b)
         IN  NatMulFrom(IF swap THEN b ELSE a, IF swap THEN a ELSE b, 1)

\* a mod m and a div m for a small divisor 0 < m < LimbBase
RECURSIVE NatModSmallFrom(_, _, _, _)
NatModSmallFrom(a, m, i, r) ==
    IF i = 0 THEN r
    ELSE NatModSmallFrom(a, m, i - 1, (r * LimbBase + a[i]) % m)

NatModSmall(a, m) == NatModSmallFrom(a, m, Len(a), 0)

RECURSIVE NatDivSmallFrom(_, _, _, _)
NatDivSmallFrom(a, m, i, r) ==
    IF i = 0 THEN <<>>
    ELSE LET s == r * LimbBase + a[i]
         IN  NatDivSmallFrom(a, m, i - 1, s % m) \o <<s \div m>>

NatDivSmall(a, m) == NatTrim(NatDivSmallFrom(a, m, Len(a), 0))

(***************************************************************************)
(* Exact rationals.  A fraction is kept in lowest terms with respect to    *)
(* the primes of SmallPrimes, which cover every denominator the model's    *)
(* inputs can produce; equality and order are decided by cross             *)
(* multiplication and never depend on the representation.                  *)
(***************************************************************************)
SmallPrimes == <<2, 3, 5, 7, 11, 13>>
\* a power of each prime, to take many factors out at once
PrimePowers == <<8192, 6561, 3125, 2401, 1331, 2197>>
\* the product of the primes
Primorial == 30030

\* n and d with every common factor p taken out, q a power of p
RECURSIVE StripCommon(_, _, _, _)
StripCommon(n, d, p, q) ==
    IF NatModSmall(n, q) = 0 /\ NatModSmall(d, q) = 0
    THEN StripCommon(NatDivSmall(n, q), NatDivSmall(d, q), p, q)
    ELSE IF q = p THEN <<n, d>>
    ELSE StripCommon(n, d, p, p)

\* the common factors at the primes i.. taken out; c is the greatest common
\* divisor of n and d modulo Primorial
RECURSIVE ReduceFrom(_, _, _, _)
ReduceFrom(n, d, c, i) ==
    IF i > Len(SmallPrimes) THEN <<n, d>>
    ELSE IF c % SmallPrimes[i] = 0
         THEN LET r == StripCommon(n, d, SmallPrimes[i], PrimePowers[i])
              IN  ReduceFrom(r[1], r[2], c, i + 1)
         ELSE ReduceFrom(n, d, c, i + 1)

RECURSIVE Gcd(_, _)
Gcd(a, b) == IF b = 0 THEN a ELSE Gcd(b, a % b)

RatReduce(n, d) ==
    LET c == Gcd(NatModSmall(n, Primorial), Gcd(NatModSmall(d, Primorial), Primorial))
    IN  IF c = 1 THEN <<n, d>> ELSE ReduceFrom(n, d, c, 1)

MkRat(s, n, d) ==
    IF s = 0 \/ n = <<>> THEN [s |-> 0, n |-> <<>>, d |-> <<1>>]
    ELSE LET r == IF d = <<1>> THEN <<n, d>> ELSE RatReduce(n, d)
         IN  [s |-> s, n |-> r[1], d |-> r[2]]

Sign(k) == IF k < 0 THEN -1 ELSE IF k > 0 THEN 1 ELSE 0
Abs(k) == IF k < 0 THEN -k ELSE k

\* the rational p/q of two machine integers, q > 0
Rat(p, q) == MkRat(Sign(p), NatFromInt(Abs(p)), NatFromInt(q))
RatInt(k) == Rat(k, 1)
Zero == RatInt(0)
One == RatInt(1)

RatNeg(x) == [s |-> -x.s, n |-> x.n, d |-> x.d]

\* x + y over the common denominator x.d * y.d / c, c the part of the two
\* denominators that RatReduce finds common
RatAdd(x, y) ==
    LET f   == IF x.d = y.d THEN <<(<<1>>), (<<1>>)>> ELSE RatReduce(x.d, y.d)
        xn  == NatMul(x.n, f[2])
        yn  == NatMul(y.n, f[1])
        c   == NatCmp(xn, yn)
        big == IF c >= 0 THEN xn ELSE yn
        sml == IF c >= 0 THEN yn ELSE xn
    IN  MkRat(IF x.s = y.s THEN x.s
              ELSE IF c = 0 THEN 0
              ELSE IF c > 0 THEN x.s ELSE y.s,
              IF x.s = y.s THEN NatAdd(xn, yn) ELSE NatSub(big, sml),
              NatMul(x.d, f[2]))

RatSub(x, y) == RatAdd(x, RatNeg(y))

\* the product as it stands, not reduced
RawMul(x, y) == [s |-> x.s * y.s, n |-> NatMul(x.n, y.n), d |-> NatMul(x.d, y.d)]

RatMul(x, y) == LET r == RawMul(x, y) IN MkRat(r.s, r.n, r.d)

\* x / y for y # 0
RatDiv(x, y) == RatMul(x, [s |-> y.s, n |-> y.d, d |-> y.n])

\* -1, 0 or 1 as x is less than, equal to or greater than y
RatCmp(x, y) ==
    IF x.s # y.s THEN (IF x.s < y.s THEN -1 ELSE 1)
    ELSE IF x.s = 0 THEN 0
    ELSE x.s * NatCmp(NatMul(x.n, y.d), NatMul(y.n, x.d))

RatEq(x, y) == RatCmp(x, y) = 0
RatLt(x, y) == RatCmp(x, y) < 0
RatLe(x, y) == RatCmp(x, y) <= 0
RatGt(x, y) == RatCmp(x, y) > 0

\* x^k for a natural k, by repeated squaring
RECURSIVE RatPowNat(_, _)
RatPowNat(x, k) ==
    IF k = 0 THEN [s |-> 1, n |-> <<1>>, d |-> <<1>>]
    ELSE IF k = 1 THEN x
    ELSE LET h == RatPowNat(x, k \div 2)
         IN  RawMul(RawMul(h, h),
                    IF k % 2 = 0 THEN [s |-> 1, n |-> <<1>>, d |-> <<1>>] ELSE x)

\* the machine integer held by a natural of at most two limbs
RECURSIVE NatToInt(_)
NatToInt(a) == IF a = <<>> THEN 0 ELSE a[1] + LimbBase * NatToInt(Tail(a))

\* f64::powf(x, e) for an exponent e whose value is an integer
PowF(x, e) ==
    LET p == RatPowNat(x, NatToInt(e.n))
    IN  IF e.s >= 0 THEN p ELSE [s |-> p.s, n |-> p.d, d |-> p.n]

(***************************************************************************)
(* Logarithms.  ln(x) / (n * ln(g)) is rational only when x is a power of  *)
(* g, so the quotient is held as a bracket [lo, hi]: the value is lo when  *)
(* lo = hi, and lies strictly between lo and hi otherwise.                 *)
(***************************************************************************)
Exactly(x) == [lo |-> x, hi |-> x]

\* the integer k with g^k <= x < g^(k+1), for g > 1 and x >= 1, counted up from k
RECURSIVE LogFloorUp(_, _, _)
LogFloorUp(g, x, k) ==
    IF RatLt(x, g) THEN <<k, RatEq(x, One)>> ELSE LogFloorUp(g, RatDiv(x, g), k + 1)

\* the same for 0 < x < 1, counted down from k
RECURSIVE LogFloorDown(_, _, _)
LogFloorDown(g, x, k) ==
    IF ~RatLt(x, One) THEN <<k, RatEq(x, One)>> ELSE LogFloorDown(g, RatMul(x, g), k - 1)

\* x.ln() / (n * g.ln()) for x > 0, g > 1, n >= 1
LnQuotient(x, g, n) ==
    LET f == IF RatLt(x, One) THEN LogFloorDown(g, x, 0) ELSE LogFloorUp(g, x, 0)
    IN  IF f[2] THEN Exactly(Rat(f[1], n))
        ELSE [lo |-> Rat(f[1], n), hi |-> Rat(f[1] + 1, n)]

\* `y > 0.0` for a bracketed value
IsPositive(y) == RatGt(y.lo, Zero) \/ (RatEq(y.lo, Zero) /\ RatGt(y.hi, Zero))

(***************************************************************************)
(* calculate_compound_interest and the inverse solvers.                    *)
(***************************************************************************)
\* the exponent without the compounding frequency: (1.0 + rate / compounds).powf(years)
FinalAmountPerYear(p, rate, compounds, yrs) ==
    RatMul(p, PowF(RatAdd(One, RatDiv(rate, RatInt(compounds))), yrs))

\* principal * (1.0 + rate / compounds).powf(compounds * years), the rate taken
\* whole instead of per compounding period
FinalAmountUndivided(p, rate, compounds, yrs) ==
    RatMul(p, PowF(RatAdd(One, rate), RatMul(RatInt(compounds), yrs)))

\* principal * (1.0 + rate / compounds).powf(compounds * years)
FinalAmount(p, rate, compounds, yrs) ==
    RatMul(p, PowF(RatAdd(One, RatDiv(rate, RatInt(compounds))),
                   RatMul(RatInt(compounds), yrs)))

\* the nominal rate returned as the effective one
EffectiveAnnualRateNominal(rate, compounds) == rate

\* (1.0 + rate / compounds).powf(compounds) - 1.0
EffectiveAnnualRate(rate, compounds) ==
    RatSub(PowF(RatAdd(One, RatDiv(rate, RatInt(compounds))), RatInt(compounds)), One)

CalculateCompoundInterest(params) ==
    LET final_amount == FinalAmount(params.principal, params.annual_rate,
                                    params.compounds_per_year, params.years)
    IN  [final_amount |-> final_amount,
         total_interest |-> RatSub(final_amount, params.principal),
         principal |-> params.principal,
         effective_annual_rate |->
             EffectiveAnnualRate(params.annual_rate, params.compounds_per_year)]

\* the quotient of logarithms without the compounding frequency
TimeToTargetInPeriods(p, target_amount, annual_rate, compounds_per_year) ==
    IF RatLe(annual_rate, Zero) \/ RatLe(p, Zero) \/ RatLe(target_amount, p)
    THEN Exactly(Zero)
    ELSE LnQuotient(RatDiv(target_amount, p),
                    RatAdd(One, RatDiv(annual_rate, RatInt(compounds_per_year))), 1)

CalculateTimeToTarget(p, target_amount, annual_rate, compounds_per_year) ==
    IF RatLe(annual_rate, Zero) \/ RatLe(p, Zero) \/ RatLe(target_amount, p)
    THEN Exactly(Zero)
    ELSE LnQuotient(RatDiv(target_amount, p),
                    RatAdd(One, RatDiv(annual_rate, RatInt(compounds_per_year))),
                    compounds_per_year)

\* the guard on years strict
PrincipalForTargetStrictYears(target_amount, annual_rate, compounds_per_year, yrs) ==
    IF RatLe(annual_rate, Zero) \/ RatLt(yrs, Zero)
    THEN Zero
    ELSE RatDiv(target_amount,
                PowF(RatAdd(One, RatDiv(annual_rate, RatInt(compounds_per_year))),
                     RatMul(RatInt(compounds_per_year), yrs)))

CalculatePrincipalForTarget(target_amount, annual_rate, compounds_per_year, yrs) ==
    IF RatLe(annual_rate, Zero) \/ RatLe(yrs, Zero)
    THEN Zero
    ELSE RatDiv(target_amount,
                PowF(RatAdd(One, RatDiv(annual_rate, RatInt(compounds_per_year))),
                     RatMul(RatInt(compounds_per_year), yrs)))

\* the callers' tests of the sentinel: `if years > 0.0`, `if principal > 0.0`
ReportsTime(yrs) == IsPositive(yrs)
ReportsPrincipal(p) == RatGt(p, Zero)

(***************************************************************************)
(* calculate_compound_interest_with_contributions.                         *)
(***************************************************************************)
\* the 12.0 of `rate / 12.0` and `years * 12.0`
months_per_year == 12

MonthlyRate(rate) == RatDiv(rate, RatInt(months_per_year))

TotalMonths(yrs) == RatMul(yrs, RatInt(months_per_year))

\* the contributions taken at face value whatever the rate
ContributionFutureValueFlat(monthly_contribution, monthly_rate, total_months) ==
    RatMul(monthly_contribution, total_months)

\* `if monthly_rate > 0.0 { ... } else { ... }`
ContributionFutureValue(monthly_contribution, monthly_rate, total_months) ==
    IF RatGt(monthly_rate, Zero)
    THEN RatDiv(RatMul(monthly_contribution,
                       RatSub(PowF(RatAdd(One, monthly_rate), total_months), One)),
                monthly_rate)
    ELSE RatMul(monthly_contribution, total_months)

\* the contributions' future value left out of the sum
PrincipalFutureValueAlone(principal_future_value, contribution_future_value) ==
    principal_future_value

\* principal_future_value + contribution_future_value
FinalAmountWithContributions(principal_future_value, contribution_future_value) ==
    RatAdd(principal_future_value, contribution_future_value)

CalculateCompoundInterestWithContributions(params, monthly_contribution) ==
    LET total_months == TotalMonths(params.years)
        final_amount ==
            FinalAmountWithContributions(
                FinalAmount(params.principal, params.annual_rate,
                            params.compounds_per_year, params.years),
                ContributionFutureValue(monthly_contribution,
                                        MonthlyRate(params.annual_rate), total_months))
    IN  [final_amount |-> final_amount,
         total_interest |->
             RatSub(RatSub(final_amount, params.principal),
                    RatMul(monthly_contribution, total_months)),
         principal |-> params.principal,
         effective_annual_rate |->
             EffectiveAnnualRate(params.annual_rate, params.compounds_per_year)]

(***************************************************************************)
(* generate_breakdown.  The loop bound `params.years as u32` is a natural  *)
(* number in limbs, so that the cast's upper limit is a value like any     *)
(* other.                                                                  *)
(***************************************************************************)
\* u32::MAX = 4294967295
U32Max == <<7295, 9496, 42>>

\* the cast rounding up instead of toward zero
AsU32RoundedUp(x) ==
    IF x.s <= 0 THEN <<>>
    ELSE LET q == NatDivSmall(NatAdd(x.n, NatFromInt(NatToInt(x.d) - 1)), NatToInt(x.d))
         IN  IF NatCmp(q, U32Max) > 0 THEN U32Max ELSE q

\* `x as u32` for an f64 x: toward zero, below 0 to 0, above u32::MAX to u32::MAX
AsU32(x) ==
    IF x.s <= 0 THEN <<>>
    ELSE LET q == NatDivSmall(x.n, NatToInt(x.d))
         IN  IF NatCmp(q, U32Max) > 0 THEN U32Max ELSE q

\* the loop `for year in 1..=last` has reached a year inside the range
InRange(yr, last) == NatCmp(NatFromInt(yr), last) <= 0

\* CompoundInterestParams { years: year as f64, ..params.clone() }
YearParams(params, yr) == [params EXCEPT !.years = RatInt(yr)]

\* breakdown.insert(year, result)
Insert(map, key, value) == (key :> value) @@ map

(***************************************************************************)
(* calculate_weekly_with_yearly_tax: the expressions of the function, one  *)
(* operator per local of the source.                                       *)
(***************************************************************************)
weeks_per_year == 52

\* the year count rounded up
YearsRoundedUp(w) == (w + weeks_per_year - 1) \div weeks_per_year

Years(w) == w \div weeks_per_year
\* the remainder taken as weeks less the year count
RemainingWeeksLessYears(w) == w - (w \div weeks_per_year)

RemainingWeeks(w) == w % weeks_per_year

\* weekly_contribution * weeks_per_year as f64
YearContributions(wc) == RatMul(wc, RatInt(weeks_per_year))

\* year_start_principal * (1.0 + weekly_rate).powf(weeks_per_year as f64)
YearEndPrincipal(start, rate) ==
    RatMul(start, PowF(RatAdd(One, rate), RatInt(weeks_per_year)))

YearEndContributions(yc, rate) ==
    IF RatGt(rate, Zero)
    THEN RatDiv(RatMul(yc, RatSub(PowF(RatAdd(One, rate), RatInt(weeks_per_year)), One)),
                rate)
    ELSE yc

YearProfit(total, start, yc) == RatSub(RatSub(total, start), yc)

\* the test on the profit's sign reversed
YearTaxOnLoss(profit, tax) == IF RatLt(profit, Zero) THEN RatMul(profit, tax) ELSE Zero

YearTax(profit, tax) == IF RatGt(profit, Zero) THEN RatMul(profit, tax) ELSE Zero

\* weekly_contribution * remaining_weeks as f64
RemainingContributions(wc, rw) == RatMul(wc, RatInt(rw))

FinalPrincipal(cur, rate, rw) == RatMul(cur, PowF(RatAdd(One, rate), RatInt(rw)))

FinalContributions(rc, rate, rw) ==
    IF RatGt(rate, Zero)
    THEN RatDiv(RatMul(rc, RatSub(PowF(RatAdd(One, rate), RatInt(rw)), One)), rate)
    ELSE rc

RemainingProfit(total, cur, rc) == RatSub(RatSub(total, cur), rc)

\* the partial year taxed like a full one
RemainingTaxUnprorated(profit, tax, rw) ==
    IF RatGt(profit, Zero) THEN RatMul(profit, tax) ELSE Zero

\* the proration ratio upside down
RemainingTaxInverted(profit, tax, rw) ==
    IF RatGt(profit, Zero)
    THEN RatMul(RatMul(profit, tax), RatDiv(RatInt(weeks_per_year), RatInt(rw)))
    ELSE Zero

RemainingTax(profit, tax, rw) ==
    IF RatGt(profit, Zero)
    THEN RatMul(RatMul(profit, tax), RatDiv(RatInt(rw), RatInt(weeks_per_year)))
    ELSE Zero

\* the segment's tax not taken off the carried balance
CarryForwardUntaxed(total, tax) == total

\* current_principal = <segment total> - <segment tax>
CarryForward(total, tax) == RatSub(total, tax)

\* the profit after tax: the tax paid is not added back
TotalProfitAfterTax(cur, taxpaid, p, contribs) == RatSub(RatSub(cur, p), contribs)

TotalProfitBeforeTax(cur, taxpaid, p, contribs) ==
    RatSub(RatSub(RatAdd(cur, taxpaid), p), contribs)

(***************************************************************************)
(* Inputs.                                                                 *)
(***************************************************************************)
MaxPrincipal == 1
MaxYears == 2
MaxAmount == 3
MaxCompounds == 2
MaxDuration == 2

Principals == {RatInt(k) : k \in 0..MaxPrincipal}
Contributions == {Zero, One}
WeeklyRates == {Rat(-1, 2), Zero, Rat(1, 2)}
TaxRates == {Zero, Rat(1, 2), One}
\* amounts, rates and durations of the solvers, out-of-range ones among them
Amounts == {RatInt(k) : k \in (-1)..MaxAmount}
AnnualRates == {Rat(-1, 2), Zero, Rat(1, 2), One}
Compounds == 1..MaxCompounds
Durations == {Rat(k, 2) : k \in (-1)..(2 * MaxDuration)}
MonthlyContributions == {Zero, One}
\* powf is modelled at whole exponents: compounds * years is an integer
WholePeriods(n, t) == RatMul(RatInt(n), t).d = <<1>>
\* whole years plus a remainder at either end of the year
Remainders == {0, 1, 2, weeks_per_year - 1}
WeekCounts == {weeks_per_year * y + r : y \in 0..MaxYears, r \in Remainders}

(***************************************************************************)
(* State.  pc is the position of the one thread of control; the other      *)
(* variables are the arguments and locals of the function being run.       *)
(* segments records, for every segment processed so far, the locals of     *)
(* that pass through the loop body or the remaining-weeks block.           *)
(* In generate_breakdown, year is the loop variable and ret the map being   *)
(* built.  by_frequency holds the earlier rows of the caller's table of     *)
(* compounding frequencies.                                                *)
(***************************************************************************)
VARIABLES pc, principal, weekly_rate, weeks, weekly_contribution,
          capital_gains_tax, year, current_principal, total_tax_paid,
          total_contributions, segments, ret, with_tax, args, solved,
          by_frequency

vars == <<pc, principal, weekly_rate, weeks, weekly_contribution,
          capital_gains_tax, year, current_principal, total_tax_paid,
          total_contributions, segments, ret, with_tax, args, solved,
          by_frequency>>

weeklyVars == <<principal, weekly_rate, weeks, weekly_contribution,
                capital_gains_tax, year, current_principal, total_tax_paid,
                total_contributions, segments>>

Idle ==
    /\ principal = Zero
    /\ weekly_rate = Zero
    /\ weeks = 0
    /\ weekly_contribution = Zero
    /\ capital_gains_tax = Zero
    /\ year = 0
    /\ current_principal = Zero
    /\ total_tax_paid = Zero
    /\ total_contributions = Zero
    /\ segments = <<>>
    /\ ret = <<>>
    /\ with_tax = <<>>
    /\ args = <<>>
    /\ solved = <<>>
    /\ by_frequency = <<>>

Init == pc = "menu" /\ Idle

\* entry of calculate_weekly_with_yearly_tax, up to the loop
CallWeekly ==
    /\ pc = "menu"
    /\ \E p \in Principals, r \in WeeklyRates, w \in WeekCounts,
          c \in Contributions, t \in TaxRates :
          /\ principal' = p
          /\ weekly_rate' = r
          /\ weeks' = w
          /\ weekly_contribution' = c
          /\ capital_gains_tax' = t
          /\ current_principal' = p
    /\ year' = 0
    /\ total_tax_paid' = Zero
    /\ total_contributions' = Zero
    /\ segments' = <<>>
    /\ ret' = <<>>
    /\ with_tax' = <<>>
    /\ pc' = "weekly_years"
    /\ UNCHANGED <<args, solved, by_frequency>>

\* the caller's comparison run: after a run at a tax rate other than 0.0, the
\* same arguments again with a tax rate of 0.0, the first run's rate and tuple
\* kept beside it
CallWeeklyNoTax ==
    /\ pc = "weekly_done"
    /\ with_tax = <<>>
    /\ ~RatEq(capital_gains_tax, Zero)
    /\ with_tax' = <<[capital_gains_tax |-> capital_gains_tax, ret |-> ret]>>
    /\ capital_gains_tax' = Zero
    /\ current_principal' = principal
    /\ year' = 0
    /\ total_tax_paid' = Zero
    /\ total_contributions' = Zero
    /\ segments' = <<>>
    /\ ret' = <<>>
    /\ pc' = "weekly_years"
    /\ UNCHANGED <<principal, weekly_rate, weeks, weekly_contribution, args, solved, by_frequency>>

\* one pass through the body of `for year in 0..years`
YearStep ==
    /\ pc = "weekly_years"
    /\ year < Years(weeks)
    /\ \E year_start_principal \in {current_principal} :
       \E year_contributions \in {YearContributions(weekly_contribution)} :
       \E year_end_principal \in {YearEndPrincipal(year_start_principal, weekly_rate)} :
       \E year_end_contributions \in
              {YearEndContributions(year_contributions, weekly_rate)} :
       \E year_end_total \in {RatAdd(year_end_principal, year_end_contributions)} :
       \E year_profit \in
              {YearProfit(year_end_total, year_start_principal, year_contributions)} :
       \E year_tax \in {YearTax(year_profit, capital_gains_tax)} :
           /\ total_contributions' = RatAdd(total_contributions, year_contributions)
           /\ total_tax_paid' = RatAdd(total_tax_paid, year_tax)
           /\ current_principal' = CarryForward(year_end_total, year_tax)
           /\ segments' = Append(segments,
                  [periods |-> weeks_per_year, start |-> year_start_principal,
                   contributions |-> year_contributions, total |-> year_end_total,
                   profit |-> year_profit, tax |-> year_tax])
    /\ year' = year + 1
    /\ UNCHANGED <<pc, principal, weekly_rate, weeks, weekly_contribution,
                   capital_gains_tax, ret, with_tax, args, solved, by_frequency>>

\* the trailing block `if remaining_weeks > 0 { ... }`
RemainingBlock ==
    \E remaining_weeks \in {RemainingWeeks(weeks)} :
    \E remaining_contributions \in
           {RemainingContributions(weekly_contribution, remaining_weeks)} :
    \E final_principal \in
           {FinalPrincipal(current_principal, weekly_rate, remaining_weeks)} :
    \E final_contributions \in
           {FinalContributions(remaining_contributions, weekly_rate, remaining_weeks)} :
    \E final_total \in {RatAdd(final_principal, final_contributions)} :
    \E remaining_profit \in
           {RemainingProfit(final_total, current_principal, remaining_contributions)} :
    \E remaining_tax \in
           {RemainingTax(remaining_profit, capital_gains_tax, remaining_weeks)} :
        /\ total_contributions' = RatAdd(total_contributions, remaining_contributions)
        /\ total_tax_paid' = RatAdd(total_tax_paid, remaining_tax)
        /\ current_principal' = CarryForward(final_total, remaining_tax)
        /\ segments' = Append(segments,
               [periods |-> remaining_weeks, start |-> current_principal,
                contributions |-> remaining_contributions, total |-> final_total,
                profit |-> remaining_profit, tax |-> remaining_tax])

\* the loop is exhausted; the trailing block runs when weeks are left over
RemainingStep ==
    /\ pc = "weekly_years"
    /\ year >= Years(weeks)
    /\ IF RemainingWeeks(weeks) > 0
       THEN RemainingBlock
       ELSE UNCHANGED <<total_contributions, total_tax_paid, current_principal, segments>>
    /\ pc' = "weekly_return"
    /\ UNCHANGED <<principal, weekly_rate, weeks, weekly_contribution,
                   capital_gains_tax, year, ret, with_tax, args, solved, by_frequency>>

\* the last two lines: the returned tuple
ReturnWeekly ==
    /\ pc = "weekly_return"
    /\ ret' = <<current_principal,
                TotalProfitBeforeTax(current_principal, total_tax_paid, principal,
                                     total_contributions),
                total_tax_paid>>
    /\ pc' = "weekly_done"
    /\ UNCHANGED <<weeklyVars, with_tax, args, solved, by_frequency>>

\* calculate_time_to_target, called with the user's numbers
CallTimeToTarget ==
    /\ pc = "menu"
    /\ \E p \in Amounts, t \in Amounts, r \in AnnualRates, n \in Compounds :
          /\ args' = [principal |-> p, target_amount |-> t, annual_rate |-> r,
                      compounds_per_year |-> n]
          /\ ret' = CalculateTimeToTarget(p, t, r, n)
    /\ pc' = "time_to_target_done"
    /\ UNCHANGED <<weeklyVars, with_tax, solved, by_frequency>>

\* calculate_principal_for_target, called with the user's numbers
CallPrincipalForTarget ==
    /\ pc = "menu"
    /\ \E t \in Amounts, r \in AnnualRates, n \in Compounds, y \in Durations :
          /\ WholePeriods(n, y)
          /\ args' = [target_amount |-> t, annual_rate |-> r,
                      compounds_per_year |-> n, years |-> y]
          /\ ret' = CalculatePrincipalForTarget(t, r, n, y)
    /\ pc' = "principal_for_target_done"
    /\ UNCHANGED <<weeklyVars, with_tax, solved, by_frequency>>

\* calculate_compound_interest, called with the user's numbers
CallCompoundInterest ==
    /\ pc = "menu"
    /\ \E p \in Amounts, r \in AnnualRates, n \in Compounds, y \in Durations :
          /\ ~RatLt(p, Zero)
          /\ ~RatLt(y, Zero)
          /\ WholePeriods(n, y)
          /\ args' = [principal |-> p, annual_rate |-> r,
                      compounds_per_year |-> n, years |-> y]
          /\ ret' = CalculateCompoundInterest(args')
    /\ pc' = "compound_interest_done"
    /\ UNCHANGED <<weeklyVars, with_tax, solved, by_frequency>>

\* calculate_compound_interest on the principal that
\* calculate_principal_for_target returned, rate, frequency and years the same
CallCompoundInterestOnSolved ==
    /\ pc = "principal_for_target_done"
    /\ solved' = <<[target_amount |-> args.target_amount, principal |-> ret]>>
    /\ args' = [principal |-> ret, annual_rate |-> args.annual_rate,
                compounds_per_year |-> args.compounds_per_year, years |-> args.years]
    /\ ret' = CalculateCompoundInterest(args')
    /\ pc' = "compound_interest_done"
    /\ UNCHANGED <<weeklyVars, with_tax, by_frequency>>

\* the caller's table of compounding frequencies: calculate_compound_interest
\* again with a higher compounds_per_year and the other parameters the same,
\* the earlier rows kept
CallCompoundInterestNextFrequency ==
    /\ pc = "compound_interest_done"
    /\ solved = <<>>
    /\ \E n \in Compounds :
          /\ n > args.compounds_per_year
          /\ WholePeriods(n, args.years)
          /\ by_frequency' = Append(by_frequency,
                 [compounds_per_year |-> args.compounds_per_year, result |-> ret])
          /\ args' = [args EXCEPT !.compounds_per_year = n]
          /\ ret' = CalculateCompoundInterest(args')
    /\ UNCHANGED <<pc, weeklyVars, with_tax, solved>>

\* calculate_compound_interest_with_contributions and, for the caller's
\* comparison, calculate_compound_interest on the same params
CallCompoundInterestWithContributions ==
    /\ pc = "menu"
    /\ \E p \in Amounts, r \in AnnualRates, n \in Compounds, y \in Durations,
          c \in MonthlyContributions :
          /\ ~RatLt(p, Zero)
          /\ ~RatLt(y, Zero)
          /\ WholePeriods(n, y)
          /\ args' = [params |-> [principal |-> p, annual_rate |-> r,
                                  compounds_per_year |-> n, years |-> y],
                      monthly_contribution |-> c]
          /\ ret' = [result |->
                         CalculateCompoundInterestWithContributions(args'.params, c),
                     result_no_contributions |->
                         CalculateCompoundInterest(args'.params)]
    /\ pc' = "with_contributions_done"
    /\ UNCHANGED <<weeklyVars, with_tax, solved, by_frequency>>

\* entry of generate_breakdown: the empty map and the range's first year
CallBreakdown ==
    /\ pc = "menu"
    /\ \E p \in Amounts, r \in AnnualRates, n \in Compounds, y \in Durations :
          args' = [principal |-> p, annual_rate |-> r,
                   compounds_per_year |-> n, years |-> y]
    /\ ret' = <<>>
    /\ year' = 1
    /\ pc' = "breakdown_loop"
    /\ UNCHANGED <<principal, weekly_rate, weeks, weekly_contribution,
                   capital_gains_tax, current_principal, total_tax_paid,
                   total_contributions, segments, with_tax, solved, by_frequency>>

\* one pass through the body of `for year in 1..=(params.years as u32)`
BreakdownStep ==
    /\ pc = "breakdown_loop"
    /\ InRange(year, AsU32(args.years))
    /\ ret' = Insert(ret, year, CalculateCompoundInterest(YearParams(args, year)))
    /\ year' = year + 1
    /\ UNCHANGED <<pc, principal, weekly_rate, weeks, weekly_contribution,
                   capital_gains_tax, current_principal, total_tax_paid,
                   total_contributions, segments, with_tax, args, solved,
                   by_frequency>>

\* the range is exhausted; `breakdown` is returned
ReturnBreakdown ==
    /\ pc = "breakdown_loop"
    /\ ~InRange(year, AsU32(args.years))
    /\ pc' = "breakdown_done"
    /\ UNCHANGED <<weeklyVars, ret, with_tax, args, solved, by_frequency>>

\* the caller has used the result; the locals are dropped
BackToMenu ==
    /\ pc \in {"weekly_done", "time_to_target_done", "principal_for_target_done",
               "compound_interest_done", "with_contributions_done",
               "breakdown_done"}
    /\ pc' = "menu"
    /\ principal' = Zero
    /\ weekly_rate' = Zero
    /\ weeks' = 0
    /\ weekly_contribution' = Zero
    /\ capital_gains_tax' = Zero
    /\ year' = 0
    /\ current_principal' = Zero
    /\ total_tax_paid' = Zero
    /\ total_contributions' = Zero
    /\ segments' = <<>>
    /\ ret' = <<>>
    /\ with_tax' = <<>>
    /\ args' = <<>>
    /\ solved' = <<>>
    /\ by_frequency' = <<>>

Next ==
    \/ CallTimeToTarget
    \/ CallPrincipalForTarget
    \/ CallCompoundInterest
    \/ CallCompoundInterestOnSolved
    \/ CallCompoundInterestNextFrequency
    \/ CallCompoundInterestWithContributions
    \/ CallBreakdown
    \/ BreakdownStep
    \/ ReturnBreakdown
    \/ CallWeekly
    \/ CallWeeklyNoTax
    \/ YearStep
    \/ RemainingStep
    \/ ReturnWeekly
    \/ BackToMenu

Spec == Init /\ [][Next]_vars

(***************************************************************************)
(* Scheduling.  The program is sequential: a function that has been        *)
(* entered executes its next statement.  The fairness conditions are       *)
(* stated on the control part of the loop steps and returns, the program   *)
(* position and the loop counter.                                          *)
(***************************************************************************)
control == <<pc, year>>

\* YearStep, as far as control goes
YearStepControl ==
    pc = "weekly_years" /\ year < Years(weeks) /\ year' = year + 1 /\ pc' = pc

\* RemainingStep, as far as control goes
RemainingStepControl ==
    pc = "weekly_years" /\ year >= Years(weeks) /\ pc' = "weekly_return" /\ year' = year

\* ReturnWeekly, as far as control goes
ReturnWeeklyControl == pc = "weekly_return" /\ pc' = "weekly_done" /\ year' = year

\* BreakdownStep, as far as control goes
BreakdownStepControl ==
    /\ pc = "breakdown_loop"
    /\ InRange(year, AsU32(args.years))
    /\ year' = year + 1
    /\ pc' = pc

\* ReturnBreakdown, as far as control goes
ReturnBreakdownControl ==
    /\ pc = "breakdown_loop"
    /\ ~InRange(year, AsU32(args.years))
    /\ pc' = "breakdown_done"
    /\ year' = year

FairSpec ==
    /\ Spec
    /\ WF_control(YearStepControl)
    /\ WF_control(RemainingStepControl)
    /\ WF_control(ReturnWeeklyControl)
    /\ WF_control(BreakdownStepControl)
    /\ WF_control(ReturnBreakdownControl)

(***************************************************************************)
(* Properties of calculate_weekly_with_yearly_tax.                         *)
(***************************************************************************)
WeeklyDone == pc = "weekly_done"

\* the future value of a stream of m payments of c at periodic rate rho
AnnuityFutureValue(c, rho, m) ==
    IF RatGt(rho, Zero)
    THEN RatDiv(RatMul(c, RatSub(RatPowNat(RatAdd(One, rho), m), One)), rho)
    ELSE RatMul(c, RatInt(m))

\* the value of p and a weekly payment of c after w periods of pure compounding
PureCompounding(p, rho, w, c) ==
    RatAdd(RatMul(p, RatPowNat(RatAdd(One, rho), w)), AnnuityFutureValue(c, rho, w))

\* C1: with a tax rate of 0 the returned final balance is the unsegmented
\* pure-compounding value over all the weeks, and the total tax paid is 0.
NoTaxIsPureCompounding ==
    (WeeklyDone /\ RatEq(capital_gains_tax, Zero)) =>
        /\ RatEq(ret[1], PureCompounding(principal, weekly_rate, weeks,
                                         weekly_contribution))
        /\ RatEq(ret[3], Zero)

\* C2: every segment's gross value is the carried balance compounded over the
\* segment's periods plus the annuity future value of the weekly contribution.
SegmentGrossIsAnnuity ==
    \A i \in 1..Len(segments) :
        RatEq(segments[i].total,
              PureCompounding(segments[i].start, weekly_rate, segments[i].periods,
                              weekly_contribution))

GrowthInputs ==
    /\ WeeklyDone
    /\ RatGt(weekly_rate, Zero)
    /\ weeks >= 1
    /\ RatGt(ret[2], Zero)

InvestedTotal == RatAdd(principal, RatMul(weekly_contribution, RatInt(weeks)))

\* C3 as stated: at a positive rate and any tax rate in [0,1], a run with
\* positive cumulative profit ends strictly above principal + contributions.
FinalAboveInvestedAnyTax ==
    GrowthInputs => RatGt(ret[1], InvestedTotal)

\* C3: at a positive rate, a run with positive cumulative profit ends strictly
\* above principal + contributions unless the tax rate is 1 and the week count
\* is a whole number of years, where it ends exactly at principal + contributions.
FinalAboveInvested ==
    GrowthInputs =>
        IF RatEq(capital_gains_tax, One) /\ weeks % 52 = 0
        THEN RatEq(ret[1], InvestedTotal)
        ELSE RatGt(ret[1], InvestedTotal)

FinalAboveInvestedWitness ==
    /\ GrowthInputs
    /\ RatGt(capital_gains_tax, Zero)
    /\ ~RatEq(capital_gains_tax, One)
    /\ weeks = 53
    /\ RatGt(ret[3], Zero)

ComparedWithTax ==
    /\ WeeklyDone
    /\ with_tax # <<>>
    /\ RatGt(with_tax[1].capital_gains_tax, Zero)
    /\ RatGt(weekly_rate, Zero)
    /\ weeks >= 1

\* C4 as stated: with a positive tax rate, a positive weekly rate, at least one
\* week and a positive principal or contribution, the taxed run ends strictly
\* below the untaxed run and pays a positive tax.
TaxLowersFinalAnyInput ==
    (ComparedWithTax /\ (RatGt(principal, Zero) \/ RatGt(weekly_contribution, Zero))) =>
        /\ RatLt(with_tax[1].ret[1], ret[1])
        /\ RatGt(with_tax[1].ret[3], Zero)

\* C4: the same, for a positive principal, or a positive contribution over at
\* least two weeks (one week of contributions alone earns nothing).
TaxLowersFinal ==
    (ComparedWithTax /\ (\/ RatGt(principal, Zero)
                         \/ (RatGt(weekly_contribution, Zero) /\ weeks >= 2))) =>
        /\ RatLt(with_tax[1].ret[1], ret[1])
        /\ RatGt(with_tax[1].ret[3], Zero)

TaxLowersFinalWitness ==
    /\ ComparedWithTax
    /\ RatEq(principal, Zero)
    /\ RatGt(weekly_contribution, Zero)
    /\ weeks = 2
    /\ RatLt(with_tax[1].ret[1], ret[1])

RECURSIVE SumPeriods(_)
SumPeriods(segs) ==
    IF segs = <<>> THEN 0 ELSE Head(segs).periods + SumPeriods(Tail(segs))

\* C5: the segments processed are weeks div 52 segments of 52 periods, in
\* order, then one of weeks mod 52 periods iff that is positive; the periods
\* sum to weeks; and zero weeks returns (principal, 0, 0).
SegmentsPartitionWeeks ==
    /\ pc = "weekly_years" =>
          /\ Len(segments) = year
          /\ year <= weeks \div 52
          /\ \A i \in 1..Len(segments) : segments[i].periods = 52
    /\ pc \in {"weekly_return", "weekly_done"} =>
          /\ Len(segments) = (weeks \div 52) + (IF weeks % 52 > 0 THEN 1 ELSE 0)
          /\ \A i \in 1..Len(segments) :
                segments[i].periods = (IF i <= weeks \div 52 THEN 52 ELSE weeks % 52)
          /\ SumPeriods(segments) = weeks
    /\ (WeeklyDone /\ weeks = 0) =>
          /\ segments = <<>>
          /\ RatEq(ret[1], principal) /\ RatEq(ret[2], Zero) /\ RatEq(ret[3], Zero)

SegmentsPartitionWeeksWitness ==
    /\ WeeklyDone
    /\ weeks = 53
    /\ Len(segments) = 2
    /\ segments[2].periods = 1

Max0(x) == IF RatGt(x, Zero) THEN x ELSE Zero

\* C6: a trailing segment of R periods is taxed max(0, profit) * tax * (R/52)
\* on its unprorated profit gross - carried - C*R, a full-year segment
\* max(0, profit) * tax, and the final balance is the trailing gross value
\* less that tax.
TrailingTaxProrated ==
    pc \in {"weekly_return", "weekly_done"} =>
        \A i \in 1..Len(segments) :
            LET g == segments[i]
                profit == RatSub(RatSub(g.total, g.start),
                                 RatMul(weekly_contribution, RatInt(g.periods)))
            IN  IF i <= weeks \div 52
                THEN RatEq(g.tax, RatMul(Max0(profit), capital_gains_tax))
                ELSE /\ RatEq(g.tax, RatMul(RatMul(Max0(profit), capital_gains_tax),
                                            Rat(weeks % 52, 52)))
                     /\ RatEq(current_principal, RatSub(g.total, g.tax))

TrailingTaxProratedWitness ==
    /\ WeeklyDone
    /\ weeks = 105
    /\ RatGt(capital_gains_tax, Zero)
    /\ RatGt(segments[3].profit, Zero)
    /\ RatGt(segments[3].tax, Zero)

RECURSIVE SumProfit(_)
SumProfit(segs) ==
    IF segs = <<>> THEN Zero ELSE RatAdd(Head(segs).profit, SumProfit(Tail(segs)))

\* C7: the returned profit before tax is final balance + tax paid - principal
\* - C * weeks, and equals the sum of the segment profits.
ProfitBeforeTaxConsistent ==
    WeeklyDone =>
        /\ RatEq(ret[2], RatSub(RatAdd(ret[1], ret[3]), InvestedTotal))
        /\ RatEq(ret[2], SumProfit(segments))

ProfitBeforeTaxConsistentWitness ==
    /\ WeeklyDone
    /\ weeks = 105
    /\ RatGt(weekly_contribution, Zero)
    /\ RatGt(ret[3], Zero)
    /\ Len(segments) = 3
(***************************************************************************)
(* Properties of the inverse solvers.                                      *)
(***************************************************************************)
\* p * (1 + r/n)^(n*t) at a duration t >= 0 of whole periods
Grown(p, r, n, t) ==
    RatMul(p, RatPowNat(RatAdd(One, RatDiv(r, RatInt(n))),
                        NatToInt(RatMul(RatInt(n), t).n)))

TimeToTargetDone == pc = "time_to_target_done"

NoSolution ==
    \/ RatLe(args.annual_rate, Zero)
    \/ RatLe(args.principal, Zero)
    \/ RatLe(args.target_amount, args.principal)

\* C8: calculate_time_to_target returns exactly 0 when the rate or the
\* principal is not positive or the target does not exceed the principal;
\* otherwise it returns the strictly positive t = ln(T/P) / (n ln(1+r/n)), the
\* duration at which the principal grows to the target, so that the caller's
\* test `years > 0` holds exactly for the reachable targets.
TimeToTargetSentinel ==
    TimeToTargetDone =>
        IF NoSolution
        THEN /\ ret = Exactly(Zero)
             /\ ~ReportsTime(ret)
        ELSE /\ ReportsTime(ret)
             /\ ~RatLt(ret.lo, Zero)
             /\ RatLe(Grown(args.principal, args.annual_rate,
                            args.compounds_per_year, ret.lo), args.target_amount)
             /\ IF RatEq(ret.lo, ret.hi)
                THEN RatEq(Grown(args.principal, args.annual_rate,
                                 args.compounds_per_year, ret.lo), args.target_amount)
                ELSE /\ RatLt(Grown(args.principal, args.annual_rate,
                                    args.compounds_per_year, ret.lo), args.target_amount)
                     /\ RatLt(args.target_amount,
                              Grown(args.principal, args.annual_rate,
                                    args.compounds_per_year, ret.hi))
                     /\ RatEq(RatSub(ret.hi, ret.lo), Rat(1, args.compounds_per_year))

TimeToTargetSentinelWitness ==
    /\ TimeToTargetDone
    /\ ~NoSolution
    /\ args.compounds_per_year = 2
    /\ RatGt(ret.lo, Zero)
    /\ RatLt(ret.lo, ret.hi)

PrincipalForTargetDone == pc = "principal_for_target_done"

Infeasible == RatLe(args.annual_rate, Zero) \/ RatLe(args.years, Zero)

\* C9 as stated: calculate_principal_for_target returns 0 when the rate or the
\* years are not positive, and otherwise T / (1+r/n)^(n t), which is not 0
\* whatever the target.
PrincipalSentinelAnyTarget ==
    PrincipalForTargetDone =>
        IF Infeasible
        THEN RatEq(ret, Zero)
        ELSE /\ RatEq(Grown(ret, args.annual_rate, args.compounds_per_year, args.years),
                      args.target_amount)
             /\ ~RatEq(ret, Zero)

\* C9: calculate_principal_for_target returns 0 when the rate or the years are
\* not positive, and otherwise T / (1+r/n)^(n t), which for a target T > 0 is
\* strictly positive, so that for such targets the caller's test
\* `principal > 0` fails exactly for the infeasible inputs.
PrincipalSentinel ==
    PrincipalForTargetDone =>
        IF Infeasible
        THEN RatEq(ret, Zero) /\ ~ReportsPrincipal(ret)
        ELSE /\ RatEq(Grown(ret, args.annual_rate, args.compounds_per_year, args.years),
                      args.target_amount)
             /\ RatGt(args.target_amount, Zero) => ReportsPrincipal(ret)

PrincipalSentinelWitness ==
    /\ PrincipalForTargetDone
    /\ ~Infeasible
    /\ RatGt(args.target_amount, Zero)
    /\ args.compounds_per_year = 2
    /\ RatLt(ret, args.target_amount)

\* C10: calculate_compound_interest on the principal returned by
\* calculate_principal_for_target(T, r, n, t), with the same r > 0, n and
\* t > 0, returns a final_amount equal to T.
RoundTrip ==
    (/\ pc = "compound_interest_done"
     /\ solved # <<>>
     /\ RatGt(args.annual_rate, Zero)
     /\ RatGt(args.years, Zero)) =>
        RatEq(ret.final_amount, solved[1].target_amount)

RoundTripWitness ==
    /\ pc = "compound_interest_done"
    /\ solved # <<>>
    /\ RatGt(args.annual_rate, Zero)
    /\ RatGt(args.years, Zero)
    /\ args.compounds_per_year = 2
    /\ RatGt(solved[1].target_amount, Zero)
    /\ RatLt(args.principal, solved[1].target_amount)
    /\ RatEq(ret.final_amount, solved[1].target_amount)

(***************************************************************************)
(* generate_breakdown.                                                     *)
(***************************************************************************)
BreakdownDone == pc = "breakdown_done"

\* the whole years k >= 1 with k <= x: {1, ..., floor(x)}, empty for x < 1
WholeYearsUpTo(x) ==
    IF x.s <= 0 THEN {} ELSE {k \in 1..NatToInt(x.n) : RatLe(RatInt(k), x)}

\* two results agree field by field
SameResult(a, b) ==
    /\ RatEq(a.final_amount, b.final_amount)
    /\ RatEq(a.total_interest, b.total_interest)
    /\ RatEq(a.principal, b.principal)
    /\ RatEq(a.effective_annual_rate, b.effective_annual_rate)

BreakdownIsTable ==
    BreakdownDone =>
        /\ DOMAIN ret = WholeYearsUpTo(args.years)
        /\ \A k \in DOMAIN ret :
              SameResult(ret[k],
                         CalculateCompoundInterest(
                             [principal |-> args.principal,
                              annual_rate |-> args.annual_rate,
                              compounds_per_year |-> args.compounds_per_year,
                              years |-> RatInt(k)]))

BreakdownKeepsParams == pc = "breakdown_loop" => args' = args

\* C11: generate_breakdown returns a table whose keys are exactly the whole
\* years 1, ..., floor(years), none when years < 1, whose entry for k is the
\* result of calculate_compound_interest on the same principal, rate and
\* frequency with years = k, and the parameter record is the same after every
\* step of the loop.
BreakdownTable == []BreakdownIsTable /\ [][BreakdownKeepsParams]_vars

\* a fractional horizon above 1: years = 3/2 gives the one key 1
BreakdownTableWitness ==
    /\ BreakdownDone
    /\ RatEq(args.years, Rat(3, 2))
    /\ DOMAIN ret = {1}
    /\ RatGt(args.annual_rate, Zero)
    /\ args.compounds_per_year = 2
    /\ RatGt(ret[1].final_amount, args.principal)

(***************************************************************************)
(* calculate_compound_interest_with_contributions.                         *)
(***************************************************************************)
WithContributionsDone == pc = "with_contributions_done"

ContributionsRaiseFinalInputs ==
    /\ WithContributionsDone
    /\ RatGt(args.monthly_contribution, Zero)

\* the statement for every years >= 0: with years = 0 no month passes, nothing
\* is contributed, and both functions return the principal
ContributionsRaiseFinalAnyYears ==
    ContributionsRaiseFinalInputs =>
        RatGt(ret.result.final_amount, ret.result_no_contributions.final_amount)

\* C12: for principal >= 0, compounds_per_year >= 1, years > 0 and a monthly
\* contribution > 0, calculate_compound_interest_with_contributions returns a
\* final_amount strictly greater than calculate_compound_interest on the same
\* parameters.
ContributionsRaiseFinal ==
    (ContributionsRaiseFinalInputs /\ RatGt(args.params.years, Zero)) =>
        RatGt(ret.result.final_amount, ret.result_no_contributions.final_amount)

ContributionsRaiseFinalWitness ==
    /\ ContributionsRaiseFinalInputs
    /\ RatEq(args.params.years, Rat(3, 2))
    /\ RatLt(args.params.annual_rate, Zero)
    /\ args.params.compounds_per_year = 2
    /\ RatGt(args.params.principal, Zero)
    /\ RatGt(ret.result.final_amount, ret.result_no_contributions.final_amount)

\* C * ((1 + rho)^m - 1) / rho for rho > 0 and C * m otherwise, rho = r / 12 and
\* m = 12 t: a value that the compounding frequency does not enter
MonthlyAnnuity(c, r, t) ==
    IF RatGt(RatDiv(r, RatInt(12)), Zero)
    THEN RatDiv(RatMul(c, RatSub(RatPowNat(RatAdd(One, RatDiv(r, RatInt(12))),
                                           NatToInt(RatMul(RatInt(12), t).n)),
                                 One)),
                RatDiv(r, RatInt(12)))
    ELSE RatMul(RatMul(c, RatInt(12)), t)

\* C13: calculate_compound_interest_with_contributions returns final_amount =
\* P (1+r/n)^(n t) + FV, FV the monthly annuity above whatever n is, and
\* total_interest = final_amount - P - 12 C t; at r = 0 the final_amount is
\* P + 12 C t and the total_interest is 0.
WithContributionsFormula ==
    WithContributionsDone =>
        LET P == args.params.principal
            r == args.params.annual_rate
            n == args.params.compounds_per_year
            t == args.params.years
            C == args.monthly_contribution
            paid == RatMul(RatMul(C, RatInt(12)), t)
        IN  /\ RatEq(ret.result.final_amount,
                     RatAdd(Grown(P, r, n, t), MonthlyAnnuity(C, r, t)))
            /\ RatEq(ret.result.total_interest,
                     RatSub(RatSub(ret.result.final_amount, P), paid))
            /\ RatEq(r, Zero) =>
                  /\ RatEq(ret.result.final_amount, RatAdd(P, paid))
                  /\ RatEq(ret.result.total_interest, Zero)

\* contributions that grow: a positive rate, more than one month, and a
\* frequency other than monthly
WithContributionsFormulaWitness ==
    /\ WithContributionsDone
    /\ RatGt(args.monthly_contribution, Zero)
    /\ RatGt(args.params.annual_rate, Zero)
    /\ RatGt(args.params.years, One)
    /\ args.params.compounds_per_year = 2
    /\ RatGt(ret.result.total_interest,
             ret.result_no_contributions.total_interest)

(***************************************************************************)
(* calculate_compound_interest across compounding frequencies.             *)
(***************************************************************************)
CompoundInterestDone == pc = "compound_interest_done"

\* the rows of the frequency table computed before the current one
EarlierRows == {by_frequency[i] : i \in DOMAIN by_frequency}

\* C14: for a fixed principal > 0, rate > 0 and years > 0, the final_amount
\* and the effective_annual_rate that calculate_compound_interest returns for
\* a compounding frequency are strictly greater than those it returned for any
\* lower frequency.
FrequencyMonotonic ==
    (/\ CompoundInterestDone
     /\ RatGt(args.principal, Zero)
     /\ RatGt(args.annual_rate, Zero)
     /\ RatGt(args.years, Zero)) =>
        \A row \in EarlierRows :
            row.compounds_per_year < args.compounds_per_year =>
                /\ RatGt(ret.final_amount, row.result.final_amount)
                /\ RatGt(ret.effective_annual_rate, row.result.effective_annual_rate)

FrequencyMonotonicWitness ==
    /\ CompoundInterestDone
    /\ RatGt(args.principal, Zero)
    /\ RatGt(args.annual_rate, Zero)
    /\ RatGt(args.years, Zero)
    /\ args.compounds_per_year = 2
    /\ \E row \in EarlierRows :
          /\ row.compounds_per_year = 1
          /\ RatGt(ret.final_amount, row.result.final_amount)
          /\ RatGt(ret.effective_annual_rate, row.result.effective_annual_rate)

(***************************************************************************)
(* The effective annual rate.                                              *)
(***************************************************************************)
\* (1 + r/n)^n - 1, a value fixed by r and n
EffectiveRateOf(r, n) ==
    RatSub(RatPowNat(RatAdd(One, RatDiv(r, RatInt(n))), n), One)

\* C15: the effective_annual_rate returned by calculate_compound_interest and
\* by calculate_compound_interest_with_contributions is (1+r/n)^n - 1, fixed
\* by annual_rate and compounds_per_year whatever the principal, the years or
\* the contribution are, the two functions return the same value on the same
\* parameters, and the returned principal is the input principal.
EffectiveRateOfRateAndFrequency ==
    /\ CompoundInterestDone =>
          /\ RatEq(ret.effective_annual_rate,
                   EffectiveRateOf(args.annual_rate, args.compounds_per_year))
          /\ RatEq(ret.principal, args.principal)
    /\ WithContributionsDone =>
          /\ RatEq(ret.result.effective_annual_rate,
                   EffectiveRateOf(args.params.annual_rate,
                                   args.params.compounds_per_year))
          /\ RatEq(ret.result.effective_annual_rate,
                   ret.result_no_contributions.effective_annual_rate)
          /\ RatEq(ret.result.principal, args.params.principal)
          /\ RatEq(ret.result_no_contributions.principal, args.params.principal)

\* a call with contributions where the rate differs from the nominal one and
\* the final amounts of the two functions differ
EffectiveRateOfRateAndFrequencyWitness ==
    /\ WithContributionsDone
    /\ args.params.compounds_per_year = 2
    /\ RatGt(args.params.annual_rate, Zero)
    /\ RatGt(args.params.years, Zero)
    /\ RatGt(args.params.principal, Zero)
    /\ RatGt(args.monthly_contribution, Zero)
    /\ RatGt(ret.result.effective_annual_rate, args.params.annual_rate)
    /\ ~RatEq(ret.result.final_amount, ret.result_no_contributions.final_amount)

(***************************************************************************)
(* The segments of calculate_weekly_with_yearly_tax.                       *)
(***************************************************************************)
WeeklyRunning == pc \in {"weekly_years", "weekly_return", "weekly_done"}

\* the balance carried out of segment i: the next segment's start, or the
\* current balance after the last segment so far
CarriedAfter(i) ==
    IF i < Len(segments) THEN segments[i + 1].start ELSE current_principal

\* the tax due on segment i: the whole rate on a full year, R/52 of it on the
\* trailing segment of R weeks
TaxDue(i) ==
    IF segments[i].periods = 52
    THEN RatMul(Max0(segments[i].profit), capital_gains_tax)
    ELSE RatMul(RatMul(Max0(segments[i].profit), capital_gains_tax),
                Rat(segments[i].periods, 52))

SegmentTaxState ==
    WeeklyRunning =>
        \A i \in DOMAIN segments :
            /\ RatEq(segments[i].tax, TaxDue(i))
            /\ ~RatLt(segments[i].tax, Zero)
            /\ RatLe(segments[i].profit, Zero) =>
                  /\ RatEq(segments[i].tax, Zero)
                  /\ RatEq(CarriedAfter(i), segments[i].total)
            /\ RatEq(CarriedAfter(i), RatSub(segments[i].total, segments[i].tax))

\* a step that processes a segment
SegmentStep == pc = "weekly_years" /\ Len(segments') = Len(segments) + 1

RunningTotalsStep ==
    SegmentStep =>
        /\ RatLe(total_tax_paid, total_tax_paid')
        /\ RatLe(total_contributions, total_contributions')
        /\ RatLe(segments'[Len(segments')].profit, Zero) =>
              RatEq(total_tax_paid', total_tax_paid)

\* C16: with a tax rate >= 0 and a contribution >= 0, after every segment the
\* segment's tax is max(0, profit) * tax rate (times R/52 in the trailing
\* segment) and not negative; a segment with profit <= 0 adds nothing to the
\* tax paid and carries its whole gross value forward; the carried balance is
\* the gross value less the tax; and no segment lowers the running tax paid
\* or the running contributions.
SegmentTaxRules == []SegmentTaxState /\ [][RunningTotalsStep]_vars

\* a run with a losing year, then a trailing segment, all of it carried on
SegmentTaxRulesWitness ==
    /\ WeeklyDone
    /\ Len(segments) = 2
    /\ RatGt(capital_gains_tax, Zero)
    /\ RatGt(weekly_contribution, Zero)
    /\ RatLt(segments[1].profit, Zero)
    /\ RatEq(segments[2].start, segments[1].total)
    /\ RatEq(total_tax_paid, Zero)
    /\ RatGt(total_contributions, segments[1].contributions)

(***************************************************************************)
(* Termination of the two loops.                                           *)
(***************************************************************************)
\* the passes through the loop body of generate_breakdown so far
BreakdownIterations == year - 1

StepBounds ==
    /\ WeeklyRunning => Len(segments) <= (weeks \div 52) + 1
    /\ pc = "breakdown_loop" =>
          BreakdownIterations <= Cardinality(WholeYearsUpTo(args.years))
    /\ BreakdownDone =>
          BreakdownIterations = Cardinality(WholeYearsUpTo(args.years))

\* C17: every call ends after a bounded number of steps:
\* calculate_weekly_with_yearly_tax processes at most weeks div 52 + 1
\* segments and returns, and generate_breakdown makes exactly floor(years)
\* passes through its loop, none when years < 1, and returns.
LoopsTerminate ==
    /\ []StepBounds
    /\ (pc = "weekly_years") ~> WeeklyDone
    /\ (pc = "breakdown_loop") ~> BreakdownDone

\* both ends of the bound: a run of weeks div 52 + 1 segments has returned
LoopsTerminateWitness ==
    /\ WeeklyDone
    /\ weeks > 52
    /\ Len(segments) = (weeks \div 52) + 1
    /\ segments[Len(segments)].periods < 52
====
